---------------------------- MODULE Spec2Model ----------------------------
(***************************************************************************)
(* A model of the record-extraction engine (modules/table_extractor.py),   *)
(* of PDFProcessor.extract_data (modules/pdf_processor.py) and of the      *)
(* batch loop of app.py.                                                    *)
(*                                                                          *)
(* A Python str is a sequence of Unicode code points (65 = 'A', 48 = '0',  *)
(* 1073 = 'б', ...); every string literal of the source is written as such *)
(* a sequence, with the literal in the comment beside it.                  *)
(***************************************************************************)
EXTENDS Integers, Sequences, FiniteSets, TLC

VARIABLES
    pc,          \* position of the running operation
    text,        \* extract_from_text: its argument
    lines,       \* extract_from_text: text.split('\n')
    table,       \* extract_from_table: its argument
    header_row,  \* extract_from_table: the index of the header row
    col_indices, \* extract_from_table: the column of each role, -1 for none
    i,           \* the number of elements the running loop has taken
    article,     \* the loop body's local of that name, as last assigned
    name,        \* the loop body's local of that name, as last assigned
    quantity,    \* the loop body's local of that name, as last assigned
    results,     \* the list of records the running operation builds
    origin,      \* history: for each record of results, the index of the
                 \* line or row it was made from
    page_count,      \* extract_data: the number of pages of the document
    ocr_results,     \* _extract_with_ocr: its local list `results`
    direct_results,  \* history: results as direct extraction left it
    direct_raised,   \* history: direct extraction has raised
    ocr_raised,      \* history: the OCR pass has raised
    ocr_calls,       \* history: the calls of _extract_with_ocr so far
    uploaded_files,  \* main: the files of the uploader
    all_results      \* main: the list the batch loop accumulates

extractorVars == <<text, lines, table, header_row, col_indices,
                   article, name, quantity, origin>>
pdfVars == <<page_count, ocr_results, direct_results, direct_raised,
             ocr_raised, ocr_calls>>
batchVars == <<uploaded_files, all_results>>

vars == <<pc, i, results, extractorVars, pdfVars, batchVars>>

---------------------------------------------------------------------------
(* Character classes. *)

Digit == 48 .. 57                                   \* \d, str.isdigit
UpperAZ == 65 .. 90                                 \* [A-Z]
LowerAZ == 97 .. 122                                \* [a-z]
AZaz == UpperAZ \cup LowerAZ                        \* [A-Za-z]
AZaz09 == AZaz \cup Digit                           \* [A-Za-z0-9]
DashUnderscore == {45, 95}                          \* [-_]
Dot == {46}                                         \* \.
Whitespace == (9 .. 13) \cup (28 .. 32) \cup {133, 160}   \* \s, str.strip()
Cyrillic == 1024 .. 1153                            \* Ѐ..ҁ, all letters
WordChar == AZaz09 \cup {95} \cup Cyrillic          \* \w

\* str.lower() on one character
lowerChar(c) ==
    IF c \in UpperAZ THEN c + 32
    ELSE IF c \in 1040 .. 1071 THEN c + 32          \* А..Я -> а..я
    ELSE IF c \in 1024 .. 1039 THEN c + 80          \* Ѐ..Џ -> ѐ..џ
    ELSE c

\* str.upper() on one character
upperChar(c) ==
    IF c \in LowerAZ THEN c - 32
    ELSE IF c \in 1072 .. 1103 THEN c - 32
    ELSE IF c \in 1104 .. 1119 THEN c - 80
    ELSE c

lower(s) == [k \in 1 .. Len(s) |-> lowerChar(s[k])]

isdigit(s) == s # <<>> /\ \A k \in 1 .. Len(s) : s[k] \in Digit

---------------------------------------------------------------------------
(* str methods. *)

MinOf(S) == CHOOSE x \in S : \A y \in S : x <= y
MaxOf(S) == CHOOSE x \in S : \A y \in S : x >= y

\* s.strip(chars): drop the leading and trailing characters that are in chars
stripChars(s, chars) ==
    LET keep == {k \in 1 .. Len(s) : s[k] \notin chars}
    IN  IF keep = {} THEN <<>> ELSE SubSeq(s, MinOf(keep), MaxOf(keep))

\* s.strip()
strip(s) == stripChars(s, Whitespace)

\* sub occurs in s at index k
OccursAt(sub, s, k) ==
    /\ k >= 1
    /\ k + Len(sub) - 1 <= Len(s)
    /\ \A j \in 1 .. Len(sub) : s[k + j - 1] = sub[j]

\* `sub in s`
contains(sub, s) == \E k \in 1 .. Len(s) + 1 : OccursAt(sub, s, k)

\* s.replace(old, ''), old non-empty: the occurrences of old are removed left
\* to right, without overlap
RECURSIVE removeFrom(_, _, _)
removeFrom(s, old, k) ==
    IF k > Len(s) THEN <<>>
    ELSE IF OccursAt(old, s, k) THEN removeFrom(s, old, k + Len(old))
    ELSE <<s[k]>> \o removeFrom(s, old, k + 1)

replace(s, old) == removeFrom(s, old, 1)

\* s.split(sep) for a one-character sep
RECURSIVE splitFrom(_, _, _, _)
splitFrom(s, sep, k, cur) ==
    IF k > Len(s) THEN <<cur>>
    ELSE IF s[k] = sep THEN <<cur>> \o splitFrom(s, sep, k + 1, <<>>)
    ELSE splitFrom(s, sep, k + 1, Append(cur, s[k]))

split(s, sep) == splitFrom(s, sep, 1, <<>>)

\* sep.join(parts)
RECURSIVE join(_, _)
join(sep, parts) ==
    IF parts = <<>> THEN <<>>
    ELSE IF Len(parts) = 1 THEN parts[1]
    ELSE parts[1] \o sep \o join(sep, Tail(parts))

---------------------------------------------------------------------------
(* Regular expressions: a pattern is a sequence of items, each a character *)
(* set with a greedy repetition lo..hi (hi < 0: unbounded) or an anchor.   *)

Rep(cs, lo, hi) == [k |-> "rep", cs |-> cs, lo |-> lo, hi |-> hi]
One(cs) == Rep(cs, 1, 1)
Opt(cs) == Rep(cs, 0, 1)
Star(cs) == Rep(cs, 0, -1)
Plus(cs) == Rep(cs, 1, -1)
Lit(s) == [k \in 1 .. Len(s) |-> One({s[k]})]
AnchorStart == [k |-> "start", cs |-> {}, lo |-> 0, hi |-> 0]      \* ^
AnchorEnd == [k |-> "end", cs |-> {}, lo |-> 0, hi |-> 0]          \* $
AnchorWord == [k |-> "wordb", cs |-> {}, lo |-> 0, hi |-> 0]       \* \b

\* c is in the set cs; with re.IGNORECASE, up to case
InClass(c, cs, ignorecase) ==
    \/ c \in cs
    \/ ignorecase /\ (lowerChar(c) \in cs \/ upperChar(c) \in cs)

\* the number of characters of s from p on that are in cs, at most cap
RECURSIVE RunLen(_, _, _, _, _)
RunLen(s, p, cs, ignorecase, cap) ==
    IF cap = 0 \/ p > Len(s) \/ ~InClass(s[p], cs, ignorecase) THEN 0
    ELSE 1 + RunLen(s, p + 1, cs, ignorecase, cap - 1)

IsWordAt(s, p) == p >= 1 /\ p <= Len(s) /\ s[p] \in WordChar

\* The backtracking matcher: the position after the match of pat[k..] that
\* starts at p and that the engine finds first (each repetition as long as
\* it can be), or 0 when there is none.
RECURSIVE MatchHere(_, _, _, _, _), TryCounts(_, _, _, _, _, _)
MatchHere(pat, k, s, p, ignorecase) ==
    IF k > Len(pat) THEN p
    ELSE IF pat[k].k = "start" THEN
        IF p = 1 THEN MatchHere(pat, k + 1, s, p, ignorecase) ELSE 0
    ELSE IF pat[k].k = "end" THEN
        IF p = Len(s) + 1 \/ (p = Len(s) /\ s[p] = 10)
        THEN MatchHere(pat, k + 1, s, p, ignorecase) ELSE 0
    ELSE IF pat[k].k = "wordb" THEN
        IF IsWordAt(s, p - 1) # IsWordAt(s, p)
        THEN MatchHere(pat, k + 1, s, p, ignorecase) ELSE 0
    ELSE
        LET cap == IF pat[k].hi < 0 THEN Len(s) ELSE pat[k].hi
            run == RunLen(s, p, pat[k].cs, ignorecase, cap)
        IN  IF run < pat[k].lo THEN 0
            ELSE TryCounts(pat, k, s, p, ignorecase, run)

TryCounts(pat, k, s, p, ignorecase, n) ==
    LET r == MatchHere(pat, k + 1, s, p + n, ignorecase)
    IN  IF r # 0 THEN r
        ELSE IF n = pat[k].lo THEN 0
        ELSE TryCounts(pat, k, s, p, ignorecase, n - 1)

\* re.search(pat, s): the leftmost match, as [found, group]
RECURSIVE searchFrom(_, _, _, _)
searchFrom(pat, s, p, ignorecase) ==
    IF p > Len(s) + 1 THEN [found |-> FALSE, group |-> <<>>]
    ELSE LET e == MatchHere(pat, 1, s, p, ignorecase)
         IN  IF e # 0 THEN [found |-> TRUE, group |-> SubSeq(s, p, e - 1)]
             ELSE searchFrom(pat, s, p + 1, ignorecase)

search(pat, s, ignorecase) == searchFrom(pat, s, 1, ignorecase)

---------------------------------------------------------------------------
(* TableExtractor.__init__: the pattern table. *)

article_patterns ==
    << \* [A-Za-z0-9]{1,3}[-_]?\d{2,4}[-_]?[A-Za-z]{0,5}
       <<Rep(AZaz09, 1, 3), Opt(DashUnderscore), Rep(Digit, 2, 4),
         Opt(DashUnderscore), Rep(AZaz, 0, 5)>>,
       \* [A-Z]\d{2,4}
       <<One(UpperAZ), Rep(Digit, 2, 4)>>,
       \* \d{3,6}[-_][A-Za-z]{2,6}
       <<Rep(Digit, 3, 6), One(DashUnderscore), Rep(AZaz, 2, 6)>>,
       \* [A-Za-z]{1,2}\d{3,4}[-_]?[A-Za-z]*
       <<Rep(AZaz, 1, 2), Rep(Digit, 3, 4), Opt(DashUnderscore), Star(AZaz)>> >>

NumberSpaces == <<Plus(Digit), Star(Whitespace)>>       \* \d+\s*

quantity_patterns ==
    << NumberSpaces \o Lit(<<1096, 1090>>) \o <<Opt(Dot)>>,            \* \d+\s*шт\.?
       NumberSpaces \o Lit(<<1096, 1090, 1091, 1082>>),                \* \d+\s*штук
       NumberSpaces \o Lit(<<1077, 1076, 1080, 1085, 1080>>)
                    \o <<Opt({1094})>>,                                \* \d+\s*единиц?
       NumberSpaces \o <<One({1084, 1082, 1075, 1090}), One({1075})>>, \* \d+\s*[мкгт]г
       NumberSpaces \o Lit(<<1083>>),                                  \* \d+\s*л
       NumberSpaces \o Lit(<<1082, 1075>>),                            \* \d+\s*кг
       NumberSpaces \o Lit(<<1084>>) >>                                \* \d+\s*м

\* \b\d+\s*$
number_at_end_pattern == <<AnchorWord, Plus(Digit), Star(Whitespace), AnchorEnd>>

\* ^\d+\s*\.?\s*
row_number_pattern ==
    <<AnchorStart, Plus(Digit), Star(Whitespace), Opt(Dot), Star(Whitespace)>>

\* the header words of extract_from_text
text_header_words ==
    { <<1072, 1088, 1090, 1080, 1082, 1091, 1083>>,                    \* 'артикул'
      <<1085, 1072, 1080, 1084, 1077, 1085, 1086, 1074, 1072, 1085, 1080, 1077>>,  \* 'наименование'
      <<1082, 1086, 1083, 1080, 1095, 1077, 1089, 1090, 1074, 1086>>,  \* 'количество'
      <<1090, 1086, 1074, 1072, 1088>>,                                \* 'товар'
      <<1087, 1086, 1079, 1080, 1094, 1080, 1103>> }                   \* 'позиция'

product_keywords ==
    { <<1073, 1086, 1083, 1090>>,                                      \* 'болт'
      <<1075, 1072, 1081, 1082, 1072>>,                                \* 'гайка'
      <<1074, 1080, 1085, 1090>>,                                      \* 'винт'
      <<1096, 1072, 1081, 1073, 1072>>,                                \* 'шайба'
      <<1076, 1102, 1073, 1077, 1083, 1100>>,                          \* 'дюбель'
      <<1089, 1072, 1084, 1086, 1088, 1077, 1079>>,                    \* 'саморез'
      <<1089, 1082, 1086, 1073, 1072>>,                                \* 'скоба'
      <<1082, 1088, 1077, 1087, 1077, 1078>>,                          \* 'крепеж'
      <<1084, 1077, 1090, 1080, 1079>>,                                \* 'метиз'
      <<1076, 1077, 1090, 1072, 1083, 1100>>,                          \* 'деталь'
      <<1079, 1072, 1087, 1095, 1072, 1089, 1090, 1100>>,              \* 'запчасть'
      <<1080, 1079, 1076, 1077, 1083, 1080, 1077>> }                   \* 'изделие'

---------------------------------------------------------------------------
(* The matching primitives. *)

\* _looks_like_product_line
looks_like_product_line(line) ==
    \E keyword \in product_keywords : contains(keyword, lower(line))

\* a filter that forgets the test for a number
article_candidate_long_enough(candidate) == Len(candidate) >= 3

\* the filter of _extract_article on a candidate
article_candidate_ok(candidate) == Len(candidate) >= 3 /\ ~isdigit(candidate)

\* _extract_article: the patterns in order; the first pattern whose leftmost
\* match passes the filter gives the result
RECURSIVE extract_article_from(_, _)
extract_article_from(s, n) ==
    IF n > Len(article_patterns) THEN <<>>
    ELSE LET match == search(article_patterns[n], s, FALSE)
             candidate == strip(match.group)
         IN  IF match.found /\ article_candidate_ok(candidate) THEN candidate
             ELSE extract_article_from(s, n + 1)

extract_article(s) == extract_article_from(s, 1)

\* _extract_quantity: the first pattern that matches, else a number at the
\* end of the text with ' шт' appended
RECURSIVE extract_quantity_from(_, _)
extract_quantity_from(s, n) ==
    IF n > Len(quantity_patterns) THEN
        LET number_at_end == search(number_at_end_pattern, s, FALSE)
        IN  IF number_at_end.found
            THEN strip(number_at_end.group) \o <<32, 1096, 1090>>      \* + ' шт'
            ELSE <<>>
    ELSE LET match == search(quantity_patterns[n], s, TRUE)
         IN  IF match.found THEN strip(match.group)
             ELSE extract_quantity_from(s, n + 1)

extract_quantity(s) == extract_quantity_from(s, 1)

\* re.sub(r'\s+', ' ', s)
RECURSIVE collapse_spaces_from(_, _)
collapse_spaces_from(s, k) ==
    IF k > Len(s) THEN <<>>
    ELSE IF s[k] \in Whitespace
         THEN <<32>> \o collapse_spaces_from(s, k + RunLen(s, k, Whitespace, FALSE, Len(s)))
         ELSE <<s[k]>> \o collapse_spaces_from(s, k + 1)

collapse_spaces(s) == collapse_spaces_from(s, 1)

\* re.sub(r'^\d+\s*\.?\s*', '', s)
strip_row_number(s) ==
    LET e == MatchHere(row_number_pattern, 1, s, 1, FALSE)
    IN  IF e = 0 THEN s ELSE SubSeq(s, e, Len(s))

\* _extract_name
extract_name(s, art, qty) ==
    LET n1 == IF art # <<>> THEN replace(s, art) ELSE s
        n2 == IF qty # <<>> THEN replace(n1, qty) ELSE n1
        n3 == strip(collapse_spaces(n2))
        n4 == stripChars(n3, {46, 44, 59, 58, 45, 95, 124})            \* '.,;:-_|'
        n5 == strip_row_number(n4)
    IN  IF Len(n5) < 3 THEN <<>> ELSE n5

Record(art, nm, qty) == [article |-> art, name |-> nm, quantity |-> qty]

\* a skip test that compares the header words with the line as written,
\* not with its lowercase form
line_skipped_case_sensitive(line) ==
    \/ line = <<>> \/ Len(line) < 3
    \/ \E word \in text_header_words : contains(word, line)

\* extract_from_text: the lines its loop skips before matching anything
line_skipped(line) ==
    \/ line = <<>> \/ Len(line) < 3
    \/ \E word \in text_header_words : contains(word, lower(line))

\* extract_from_text: a line with an article, a quantity or a product word
line_accepted(line, art, qty) ==
    art # <<>> \/ qty # <<>> \/ looks_like_product_line(line)

\* extract_from_text: the test that guards results.append
record_ok(art, nm) == art # <<>> \/ (nm # <<>> /\ Len(nm) > 2)

\* the body of the loop of extract_from_text on one line: the records it
\* appends (none or one)
line_records(raw) ==
    LET line == strip(raw)
        art == extract_article(line)
        qty == extract_quantity(line)
        nm == extract_name(line, art, qty)
    IN  IF ~line_skipped(line) /\ line_accepted(line, art, qty) /\ record_ok(art, nm)
        THEN <<Record(art, nm, qty)>>
        ELSE <<>>

---------------------------------------------------------------------------
(* Table mode.  A table is a sequence of rows, a row a sequence of cells,  *)
(* a cell a str or None.  Column and row indices are Python's (from 0):    *)
(* row[c] is Cell(row, c).                                                  *)

None == <<-1>>                      \* no str holds the code point -1
truthy(cell) == cell # None /\ cell # <<>>                 \* `if cell`
str(cell) == IF cell = None THEN <<78, 111, 110, 101>> ELSE cell   \* 'None'
Cell(row, c) == row[c + 1]

\* the keywords of _find_header_row, in its order
header_keywords ==
    << <<1072, 1088, 1090, 1080, 1082, 1091, 1083>>,                   \* 'артикул'
       <<1085, 1072, 1080, 1084, 1077, 1085, 1086, 1074, 1072, 1085, 1080, 1077>>,  \* 'наименование'
       <<1082, 1086, 1083, 1080, 1095, 1077, 1089, 1090, 1074, 1086>>, \* 'количество'
       <<1082, 1086, 1076>>,                                           \* 'код'
       <<1085, 1072, 1079, 1074, 1072, 1085, 1080, 1077>>,             \* 'название'
       <<1082, 1086, 1083, 45, 1074, 1086>>,                           \* 'кол-во'
       <<1090, 1086, 1074, 1072, 1088>> >>                             \* 'товар'

article_words == { <<1072, 1088, 1090, 1080, 1082, 1091, 1083>>,       \* 'артикул'
                   <<1082, 1086, 1076>> }                              \* 'код'
name_words == { <<1085, 1072, 1080, 1084, 1077, 1085, 1086, 1074, 1072, 1085, 1080, 1077>>,  \* 'наименование'
                <<1085, 1072, 1079, 1074, 1072, 1085, 1080, 1077>>,    \* 'название'
                <<1090, 1086, 1074, 1072, 1088>> }                     \* 'товар'
quantity_words == { <<1082, 1086, 1083, 1080, 1095, 1077, 1089, 1090, 1074, 1086>>,  \* 'количество'
                    <<1082, 1086, 1083, 45, 1074, 1086>>,              \* 'кол-во'
                    <<1096, 1090, 1091, 1082>> }                       \* 'штук'

\* the cells of row that pass `if cell`, each through f, in order
RECURSIVE truthy_cells(_, _)
truthy_cells(row, lowered) ==
    IF row = <<>> THEN <<>>
    ELSE (IF truthy(row[1])
          THEN <<IF lowered THEN lower(str(row[1])) ELSE str(row[1])>>
          ELSE <<>>) \o truthy_cells(Tail(row), lowered)

\* ' '.join(str(cell) for cell in row if cell)
row_text(row) == join(<<32>>, truthy_cells(row, FALSE))

\* a header test that one keyword is enough for
enough_keywords_one(matches) == matches >= 1

\* _find_header_row: `if matches >= 2`
enough_keywords(matches) == matches >= 2

\* _find_header_row: the index of the first row with two keywords or more,
\* 0 when there is none
RECURSIVE find_header_row_from(_, _)
find_header_row_from(tbl, r) ==
    IF r >= Len(tbl) THEN 0
    ELSE LET row == Cell(tbl, r)
             lowered_text == join(<<32>>, truthy_cells(row, TRUE))
             matches == Cardinality({n \in 1 .. Len(header_keywords) :
                                        contains(header_keywords[n], lowered_text)})
         IN  IF row # <<>> /\ enough_keywords(matches) THEN r
             ELSE find_header_row_from(tbl, r + 1)

find_header_row(tbl) == find_header_row_from(tbl, 0)

\* _find_column_indices: the cells of the header from left to right, a later
\* cell of a role overwriting an earlier one
RECURSIVE find_column_indices_from(_, _, _)
find_column_indices_from(header, c, indices) ==
    IF c >= Len(header) THEN indices
    ELSE LET cell == Cell(header, c)
             cell_lower == lower(str(cell))
         IN  find_column_indices_from(header, c + 1,
                IF ~truthy(cell) THEN indices
                ELSE IF \E word \in article_words : contains(word, cell_lower)
                     THEN [indices EXCEPT !.article = c]
                ELSE IF \E word \in name_words : contains(word, cell_lower)
                     THEN [indices EXCEPT !.name = c]
                ELSE IF \E word \in quantity_words : contains(word, cell_lower)
                     THEN [indices EXCEPT !.quantity = c]
                ELSE indices)

find_column_indices(header) ==
    find_column_indices_from(header, 0, [article |-> -1, name |-> -1, quantity |-> -1])

\* a column read that forgets .strip()
column_value_unstripped(row, c) ==
    IF c >= 0 /\ c < Len(row)
    THEN (IF truthy(Cell(row, c)) THEN str(Cell(row, c)) ELSE <<>>)
    ELSE <<>>

\* str(row[c] or '').strip() when c is an index of row, '' otherwise
column_value(row, c) ==
    IF c >= 0 /\ c < Len(row)
    THEN strip(IF truthy(Cell(row, c)) THEN str(Cell(row, c)) ELSE <<>>)
    ELSE <<>>

\* _extract_row_data: the three fields, from the mapped column or, when that
\* gives '', from the whole row
row_article(row, indices) ==
    IF column_value(row, indices.article) = <<>>
    THEN extract_article(row_text(row))
    ELSE column_value(row, indices.article)

row_name(row, indices) ==
    IF column_value(row, indices.name) = <<>> /\ row_article(row, indices) # <<>>
    THEN extract_name(row_text(row), row_article(row, indices),
                      column_value(row, indices.quantity))
    ELSE column_value(row, indices.name)

row_quantity(row, indices) ==
    IF column_value(row, indices.quantity) = <<>>
    THEN extract_quantity(row_text(row))
    ELSE column_value(row, indices.quantity)

\* _extract_row_data: the test that guards the returned record
row_record_ok(art, nm) == art # <<>> \/ nm # <<>>

\* _extract_row_data: the records the row gives (none or one)
extract_row_data(row, indices) ==
    IF row # <<>> /\ row_record_ok(row_article(row, indices), row_name(row, indices))
    THEN <<Record(row_article(row, indices), row_name(row, indices),
                  row_quantity(row, indices))>>
    ELSE <<>>

\* the test of the loop of extract_from_table that skips a row
blank_row(row) ==
    row = <<>> \/ \A c \in 0 .. Len(row) - 1 :
                     Cell(row, c) = None \/ strip(str(Cell(row, c))) = <<>>

\* extract_from_text as a function of its argument
RECURSIVE records_of_lines(_)
records_of_lines(ls) ==
    IF ls = <<>> THEN <<>>
    ELSE line_records(ls[1]) \o records_of_lines(Tail(ls))

extract_from_text(t) == records_of_lines(split(t, 10))

\* extract_from_table as a function of its argument
RECURSIVE records_of_rows(_, _, _)
records_of_rows(tbl, indices, r) ==
    IF r >= Len(tbl) THEN <<>>
    ELSE (IF blank_row(Cell(tbl, r)) THEN <<>>
          ELSE extract_row_data(Cell(tbl, r), indices))
         \o records_of_rows(tbl, indices, r + 1)

extract_from_table(tbl) ==
    IF tbl = <<>> \/ Len(tbl) < 2 THEN <<>>
    ELSE records_of_rows(tbl, find_column_indices(Cell(tbl, find_header_row(tbl))),
                         find_header_row(tbl) + 1)

---------------------------------------------------------------------------
(* The inputs the extractor is run on. *)

MaxLines == 3       \* lines of a text of several lines
MaxRows == 3        \* data rows of a table of several rows

RECURSIVE SeqsUpTo(_, _)
SeqsUpTo(S, n) ==
    IF n = 0 THEN {<<>>}
    ELSE LET shorter == SeqsUpTo(S, n - 1)
         IN  shorter \cup {Append(q, x) : q \in {r \in shorter : Len(r) = n - 1}, x \in S}

CodeParts ==
    { <<>>,
      <<65, 48, 48, 49, 45, 50, 48, 50, 52>>,                          \* 'A001-2024'
      <<49, 48, 48, 53, 48, 48>>,                                      \* '100500'
      <<66, 49, 50>>,                                                  \* 'B12'
      <<50, 48, 50, 52, 32, 66, 49, 50>>,                              \* '2024 B12'
      <<50, 48, 50, 52, 32, 97, 98, 49, 50>> }                         \* '2024 ab12'
NameParts ==
    { <<>>,
      <<32, 1041, 1086, 1083, 1090>>,                                  \* ' Болт'
      <<32, 1058, 1086, 1074, 1072, 1088>>,                            \* ' Товар'
      <<32, 97, 98, 32, 46>>,                                          \* ' ab .'
      <<32, 1075, 1072, 1081, 1082, 1072, 32, 1052, 56>> }             \* ' гайка М8'
QuantityParts ==
    { <<>>,
      <<32, 53, 48, 32, 1096, 1090>>,                                  \* ' 50 шт'
      <<32, 53>>,                                                      \* ' 5'
      <<32, 51, 32, 1050, 1043>> }                                     \* ' 3 КГ'

ExampleLine ==   \* 'A001-2024 Болт крепёжный М8х40 50 шт'
    <<65, 48, 48, 49, 45, 50, 48, 50, 52, 32, 1041, 1086, 1083, 1090, 32,
      1082, 1088, 1077, 1087, 1105, 1078, 1085, 1099, 1081, 32, 1052, 56,
      1093, 52, 48, 32, 53, 48, 32, 1096, 1090>>

\* texts of one line
OneLineTexts ==
    {c \o n \o q : c \in CodeParts, n \in NameParts, q \in QuantityParts}
        \cup {ExampleLine}

LineWithAll ==     \* 'A001-2024 Болт 50 шт'
    <<65, 48, 48, 49, 45, 50, 48, 50, 52, 32, 1041, 1086, 1083, 1090,
      32, 53, 48, 32, 1096, 1090>>
LineWithName ==    \* 'Болт без кода'
    <<1041, 1086, 1083, 1090, 32, 1073, 1077, 1079, 32, 1082, 1086, 1076, 1072>>
LineWithHeader ==  \* 'Товар B12'
    <<1058, 1086, 1074, 1072, 1088, 32, 66, 49, 50>>
LineWithNumber ==  \* 'B12 гайка 5'
    <<66, 49, 50, 32, 1075, 1072, 1081, 1082, 1072, 32, 53>>

SampleLines == {LineWithAll, LineWithName, LineWithHeader, <<>>, LineWithNumber}

\* texts of up to MaxLines lines, joined by '\n'
SeveralLineTexts == {join(<<10>>, ls) : ls \in SeqsUpTo(SampleLines, MaxLines)}

TextInputs == OneLineTexts \cup SeveralLineTexts

SpecHeader ==    \* ['Код', 'Название', 'Кол-во']
    << <<1050, 1086, 1076>>, <<1053, 1072, 1079, 1074, 1072, 1085, 1080, 1077>>,
       <<1050, 1086, 1083, 45, 1074, 1086>> >>

HeaderRows ==
    { SpecHeader,
      << <<1040, 1088, 1090, 1080, 1082, 1091, 1083>>,
         <<1050, 1086, 1083, 45, 1074, 1086>> >>,                      \* ['Артикул', 'Кол-во']
      << <<66, 49, 50>>, <<1041, 1086, 1083, 1090>>, <<53>> >> }       \* ['B12', 'Болт', '5']

CodeCells == { None, <<>>, <<32, 66, 49, 50, 32>>,                     \* ' B12 '
               <<88>>,                                                 \* 'X'
               <<65, 48, 48, 49, 45, 50, 48, 50, 52>> }                \* 'A001-2024'
NameCells == { None, <<97, 98>>,                                       \* 'ab'
               <<32, 1041, 1086, 1083, 1090, 32, 1082, 1088, 1077, 1087, 1105, 1078,
                 1085, 1099, 1081, 32, 1052, 56, 1093, 52, 48>>,       \* ' Болт крепёжный М8х40'
               <<65, 48, 48, 49, 32, 1058, 1086, 1074, 1072, 1088>> }  \* 'A001 Товар'
QuantityCells == { <<>>, <<53>>,                                       \* '5'
                   <<53, 48, 32, 1096, 1090, 32>> }                    \* '50 шт '

\* data rows: of three cells, and shorter ones
DataRows ==
    {<<c, n, q>> : c \in CodeCells, n \in NameCells, q \in QuantityCells}
        \cup {<<>>, << <<66, 49, 50>> >>, << <<>>, <<97, 98>> >>}

SampleRows ==
    { << <<65, 48, 48, 49, 45, 50, 48, 50, 52>>,
         <<1041, 1086, 1083, 1090>>, <<53, 48, 32, 1096, 1090, 32>> >>, \* ['A001-2024', 'Болт', '50 шт ']
      << None, <<>>, <<32>> >>,                                        \* [None, '', ' ']
      << <<>>, <<66, 49, 50, 32, 1074, 1080, 1085, 1090>>, <<55>> >>,  \* ['', 'B12 винт', '7']
      << <<>>, <<>>, <<53>> >> }                                       \* ['', '', '5']

TitleRow == << <<1053, 1072, 1082, 1083, 1072, 1076, 1085, 1072, 1103>> >>   \* ['Накладная']

\* tables: a header and one data row; a header and up to MaxRows sample
\* rows; a title row above the header; no row at all
TableInputs ==
    {<<h, r>> : h \in HeaderRows, r \in DataRows}
        \cup {<<h>> \o rs : h \in HeaderRows, rs \in SeqsUpTo(SampleRows, MaxRows)}
        \cup {<<TitleRow, SpecHeader, r>> : r \in SampleRows}
        \cup {<<>>}

---------------------------------------------------------------------------
(* The extractor as a state machine: one action for each entry, each turn  *)
(* of a loop and each return.                                               *)

no_indices == [article |-> -1, name |-> -1, quantity |-> -1]

\* an insert at the front of the list instead of an append
prepended(rs, new) == new \o rs

\* results.append / results.extend, with the history kept beside it
appended(rs, new) == rs \o new

Init ==
    /\ \/ pc = "extract_from_text" /\ text \in TextInputs /\ table = <<>>
       \/ pc = "extract_from_table" /\ text = <<>> /\ table \in TableInputs
    /\ lines = <<>>
    /\ header_row = 0
    /\ col_indices = no_indices
    /\ i = 0
    /\ article = <<>> /\ name = <<>> /\ quantity = <<>>
    /\ results = <<>>
    /\ origin = <<>>
    /\ page_count = 0 /\ ocr_results = <<>> /\ direct_results = <<>>
    /\ direct_raised = FALSE /\ ocr_raised = FALSE /\ ocr_calls = 0
    /\ uploaded_files = <<>> /\ all_results = <<>>

\* extract_from_text, up to its loop
TextSplit ==
    /\ pc = "extract_from_text"
    /\ lines' = split(text, 10)
    /\ results' = <<>> /\ origin' = <<>>
    /\ i' = 0
    /\ pc' = "text_loop"
    /\ UNCHANGED <<text, table, header_row, col_indices, article, name, quantity>>
    /\ UNCHANGED <<pdfVars, batchVars>>

\* one turn of the loop of extract_from_text
TextLine ==
    /\ pc = "text_loop" /\ i < Len(lines)
    /\ LET line == strip(lines[i + 1])
           art == extract_article(line)
           qty == extract_quantity(line)
           nm == extract_name(line, art, qty)
       IN  IF line_skipped(line)
           THEN UNCHANGED <<article, name, quantity, results, origin>>
           ELSE /\ article' = art
                /\ quantity' = qty
                /\ IF line_accepted(line, art, qty)
                   THEN /\ name' = nm
                        /\ IF record_ok(art, nm)
                           THEN /\ results' = appended(results, <<Record(art, nm, qty)>>)
                                /\ origin' = appended(origin, <<i>>)
                           ELSE UNCHANGED <<results, origin>>
                   ELSE UNCHANGED <<name, results, origin>>
    /\ i' = i + 1
    /\ UNCHANGED <<pc, text, lines, table, header_row, col_indices>>
    /\ UNCHANGED <<pdfVars, batchVars>>

\* extract_from_text returns
TextReturn ==
    /\ pc = "text_loop" /\ i = Len(lines)
    /\ pc' = "returned"
    /\ UNCHANGED <<text, lines, table, header_row, col_indices, i,
                   article, name, quantity, results, origin>>
    /\ UNCHANGED <<pdfVars, batchVars>>

\* extract_from_table, up to its loop, or its early return
TableHeader ==
    /\ pc = "extract_from_table"
    /\ results' = <<>> /\ origin' = <<>>
    /\ IF table = <<>> \/ Len(table) < 2
       THEN pc' = "returned" /\ UNCHANGED <<header_row, col_indices, i>>
       ELSE /\ header_row' = find_header_row(table)
            /\ col_indices' = find_column_indices(Cell(table, find_header_row(table)))
            /\ i' = find_header_row(table) + 1
            /\ pc' = "table_loop"
    /\ UNCHANGED <<text, lines, table, article, name, quantity>>
    /\ UNCHANGED <<pdfVars, batchVars>>

\* one turn of the loop of extract_from_table
TableRow ==
    /\ pc = "table_loop" /\ i < Len(table)
    /\ LET row == Cell(table, i)
       IN  IF blank_row(row)
           THEN UNCHANGED <<article, name, quantity, results, origin>>
           ELSE /\ article' = row_article(row, col_indices)
                /\ name' = row_name(row, col_indices)
                /\ quantity' = row_quantity(row, col_indices)
                /\ results' = appended(results, extract_row_data(row, col_indices))
                /\ origin' = appended(origin, [k \in 1 .. Len(extract_row_data(row, col_indices)) |-> i])
    /\ i' = i + 1
    /\ UNCHANGED <<pc, text, lines, table, header_row, col_indices>>
    /\ UNCHANGED <<pdfVars, batchVars>>

\* extract_from_table returns
TableReturn ==
    /\ pc = "table_loop" /\ i >= Len(table)
    /\ pc' = "returned"
    /\ UNCHANGED <<text, lines, table, header_row, col_indices, i,
                   article, name, quantity, results, origin>>
    /\ UNCHANGED <<pdfVars, batchVars>>

Next ==
    \/ TextSplit \/ TextLine \/ TextReturn
    \/ TableHeader \/ TableRow \/ TableReturn

Spec == Init /\ [][Next]_vars

---------------------------------------------------------------------------
(* Properties of the extractor. *)

\* the run is one of extract_from_text (split gives at least one line)
text_mode == pc \in {"extract_from_text", "text_loop"} \/ (pc = "returned" /\ lines # <<>>)
\* the run is one of extract_from_table, past its header
table_mode == pc = "table_loop" \/ (pc = "returned" /\ lines = <<>> /\ Len(table) >= 2)

\* the positions of results whose record was made from line or row r
records_from(r) == {k \in 1 .. Len(origin) : origin[k] = r}

\* a header word of extract_from_text occurs in the lowercase form of raw
has_header_word(raw) == \E word \in text_header_words : contains(word, lower(raw))

\* C1: every record of the list under construction, in line mode and in
\* table mode, has a non-empty code, or a name that after trimming is at
\* least 3 characters long.
C1_RecordHasCodeOrName ==
    \A k \in 1 .. Len(results) :
        results[k].article # <<>> \/ Len(strip(results[k].name)) >= 3

ExampleRecord ==
    Record(<<65, 48, 48, 49, 45, 50, 48, 50, 52>>,                     \* 'A001-2024'
           <<1041, 1086, 1083, 1090, 32, 1082, 1088, 1077, 1087, 1105, 1078, 1085,
             1099, 1081, 32, 1052, 56, 1093, 52, 48>>,                 \* 'Болт крепёжный М8х40'
           <<53, 48, 32, 1096, 1090>>)                                 \* '50 шт'

\* C2: extract_from_text of the line 'A001-2024 Болт крепёжный М8х40 50 шт'
\* returns exactly one record: 'A001-2024', 'Болт крепёжный М8х40', '50 шт'.
C2_ExampleLineRecord ==
    (pc = "returned" /\ text = ExampleLine) => results = <<ExampleRecord>>

\* the cell c of row as the claim reads it: trimmed, '' for None or no cell
trimmed_cell(row, c) ==
    IF c < Len(row) /\ Cell(row, c) # None THEN strip(Cell(row, c)) ELSE <<>>

\* row r of the table has given exactly the record read from its cells 0, 1, 2
row_read_from_columns(r) ==
    /\ Cardinality(records_from(r)) = 1
    /\ \A k \in records_from(r) :
          results[k] = Record(trimmed_cell(Cell(table, r), 0),
                              trimmed_cell(Cell(table, r), 1),
                              trimmed_cell(Cell(table, r), 2))

spec_header_found == table_mode /\ Cell(table, header_row) = SpecHeader

three_cells_filled(row) ==
    \A c \in 0 .. 2 : trimmed_cell(row, c) # <<>>

C4_HeaderLinesGiveNoRecord ==
    text_mode =>
        \A r \in 0 .. i - 1 : has_header_word(lines[r + 1]) => records_from(r) = {}

\* C4 witness: a line with a capitalised header word, a code and a quantity
\* has been passed and the result is empty.
C4_Witness ==
    /\ pc = "returned" /\ text_mode /\ results = <<>>
    /\ \E r \in 0 .. Len(lines) - 1 :
          /\ has_header_word(lines[r + 1])
          /\ ~\E word \in text_header_words : contains(word, lines[r + 1])
          /\ extract_article(strip(lines[r + 1])) # <<>>
          /\ extract_quantity(strip(lines[r + 1])) # <<>>

OnlyNumberLine == <<49, 48, 48, 53, 48, 48>>                           \* '100500'

\* C5: what _extract_article has returned for a line is '' or is at least 3
\* characters long and not made of digits only; for '100500' it is ''.
C5_ArticleIsEmptyOrValid ==
    text_mode =>
        /\ article = <<>> \/ (Len(article) >= 3 /\ ~isdigit(article))
        /\ (pc = "text_loop" /\ i >= 1 /\ lines[i] = OnlyNumberLine) => article = <<>>

\* C5 witness: the line '100500' has been matched and the article is ''.
C5_Witness ==
    pc = "text_loop" /\ i >= 1 /\ lines[i] = OnlyNumberLine /\ article = <<>>

\* the records the element r of the input gives on its own
records_of_element(r) ==
    IF text_mode THEN line_records(lines[r + 1])
    ELSE IF blank_row(Cell(table, r)) THEN <<>>
    ELSE extract_row_data(Cell(table, r), col_indices)

\* C6: within a call each line or row gives at most one record, and the
\* records stand in results in the order of the lines or rows they come
\* from, each being the record of its line or row.
C6_InputOrderKept ==
    (pc \in {"text_loop", "table_loop", "returned"}) =>
        /\ Len(origin) = Len(results)
        /\ \A k \in 1 .. Len(origin) :
              /\ origin[k] < i
              /\ \A m \in 1 .. Len(origin) : k < m => origin[k] < origin[m]
              /\ records_of_element(origin[k]) = <<results[k]>>

\* C6 witness: a text of three lines, the first and the last of which gave a
\* record and the middle one none.
C6_Witness ==
    /\ pc = "returned" /\ text_mode
    /\ Len(lines) = 3 /\ origin = <<0, 2>>
    /\ results[1] # results[2]

\* the line '{code} {name} {quantity}' of a record
record_line(r) == r.article \o <<32>> \o r.name \o <<32>> \o r.quantity

\* C7: each record extract_from_table has produced, written as the line
\* '{code} {name} {quantity}' and given to extract_from_text, comes back as
\* exactly one record with the same code and the same quantity.
C7_TableRecordsRoundTrip ==
    table_mode =>
        \A k \in 1 .. Len(results) :
            LET back == extract_from_text(record_line(results[k]))
            IN  /\ Len(back) = 1
                /\ back[1].article = results[k].article
                /\ back[1].quantity = results[k].quantity

\* the header keywords that occur in the lowercase, space-joined non-empty
\* cells of the row: how many
keyword_count(row) ==
    Cardinality({n \in 1 .. Len(header_keywords) :
                    contains(header_keywords[n], join(<<32>>, truthy_cells(row, TRUE)))})

\* the indices of the rows of the table with two header keywords or more
qualifying_rows == {r \in 0 .. Len(table) - 1 : keyword_count(Cell(table, r)) >= 2}

\* C11: in table mode the header row is the lowest-index row with at least
\* two header keywords, row 0 when there is none, and no record comes from a
\* row at or before the header row.
C11_HeaderIsFirstQualifyingRow ==
    table_mode =>
        /\ header_row = (IF qualifying_rows = {} THEN 0 ELSE MinOf(qualifying_rows))
        /\ \A k \in 1 .. Len(origin) : origin[k] > header_row

\* C11 witness: the table is done, no row of it qualifies, row 0 is a data
\* row that would give a record under the columns found, and the only
\* records are those of the rows below it.
C11_Witness ==
    /\ pc = "returned" /\ table_mode
    /\ qualifying_rows = {}
    /\ header_row = 0
    /\ ~blank_row(Cell(table, 0))
    /\ extract_row_data(Cell(table, 0), col_indices) # <<>>
    /\ results # <<>>
    /\ records_from(0) = {}

\* the role has no column in the row: it is unresolved, or its index is out
\* of the bounds of the row
role_unresolved(row, c) == c < 0 \/ c >= Len(row)

\* the row the loop of extract_from_table has just taken
last_row == Cell(table, i - 1)

\* C12: for the non-blank data row just taken, each field whose role is
\* unresolved or out of bounds is what the line-mode primitive gives on the
\* non-empty cells of the row joined into one line (the name residual being
\* taken with the code and the quantity of the row); and when the name role
\* is unresolved, the row has no code and the residual is at least 3
\* characters long, the row gives a record with that name.
C12_UnresolvedRolesFallBack ==
    (table_mode /\ i > header_row + 1 /\ ~blank_row(last_row)) =>
        LET line == row_text(last_row)
            residual == extract_name(line, article, quantity)
        IN  /\ role_unresolved(last_row, col_indices.article) =>
                  article = extract_article(line)
            /\ role_unresolved(last_row, col_indices.quantity) =>
                  quantity = extract_quantity(line)
            /\ role_unresolved(last_row, col_indices.name) =>
                  /\ name = residual
                  /\ (article = <<>> /\ Len(residual) >= 3) =>
                        \E k \in records_from(i - 1) : results[k].name = residual

\* the matches of the pattern in s, as re.findall gives them: the leftmost
\* match, then the leftmost one after it, and so on
RECURSIVE findall_from(_, _, _)
findall_from(pat, s, p) ==
    IF p > Len(s) + 1 THEN {}
    ELSE LET e == MatchHere(pat, 1, s, p, FALSE)
         IN  IF e = 0 THEN findall_from(pat, s, p + 1)
             ELSE {SubSeq(s, p, e - 1)}
                     \cup findall_from(pat, s, IF e = p THEN p + 1 ELSE e)

\* the matches of code pattern n in s that are at least 3 characters long and
\* not purely numeric
valid_matches(n, s) ==
    {g \in findall_from(article_patterns[n], s, 1) :
        Len(g) >= 3 /\ \E k \in 1 .. Len(g) : g[k] \notin Digit}

\* the code patterns with a valid match in s
patterns_with_valid_match(s) ==
    {n \in 1 .. Len(article_patterns) : valid_matches(n, s) # {}}

\* the line the loop of extract_from_text has just taken
last_line == strip(lines[i])

\* C13: the code found in the line just taken is empty only if no code
\* pattern has a match in the line that is at least 3 characters long and not
\* purely numeric; otherwise it is such a match of the earliest pattern that
\* has one.
C13_ArticleIsFirstValidMatch ==
    (pc \in {"text_loop", "returned"} /\ lines # <<>> /\ i >= 1
        /\ ~line_skipped(last_line)) =>
            IF patterns_with_valid_match(last_line) = {}
            THEN article = <<>>
            ELSE article \in valid_matches(MinOf(patterns_with_valid_match(last_line)),
                                           last_line)

---------------------------------------------------------------------------
(* PDFProcessor.extract_data.  What pdfplumber, fitz and pytesseract do   *)
(* with a page is the environment's choice: they return tables or text,   *)
(* or they raise.                                                          *)

MaxPages == 2       \* pages of a document

ThreeLineText == join(<<10>>, <<LineWithAll, LineWithName, LineWithNumber>>)

\* what page.extract_text() returns: None, or a text
PageTexts == {None, LineWithNumber, ThreeLineText}

\* what page.extract_tables() returns when the page has tables
PageTableLists ==
    { << <<SpecHeader, r>> >> : r \in SampleRows }
        \cup { << <<SpecHeader, r>>, <<TitleRow, SpecHeader, r>> >> : r \in SampleRows }

\* what pytesseract.image_to_string returns
OcrTexts == {<<>>, LineWithNumber, ThreeLineText}

\* the loop over the tables of a page: the records it adds
RECURSIVE records_of_tables(_)
records_of_tables(tables) ==
    IF tables = <<>> THEN <<>>
    ELSE extract_from_table(tables[1]) \o records_of_tables(Tail(tables))

\* `page.extract_text() or ''`
text_or_empty(t) == IF t = None \/ t = <<>> THEN <<>> ELSE t

\* a test that looks for no record at all instead of fewer than 3
ocr_needed_when_empty(rs) == Len(rs) < 1

\* a test that takes 3 records for few as well
ocr_needed_up_to_three(rs) == Len(rs) <= 3

\* extract_data: `if len(results) < 3`
ocr_needed(rs) == Len(rs) < 3

\* a list that is replaced instead of extended
replaced(rs, new) == new

\* extract_data: results.extend(ocr_results)
extended(rs, new) == rs \o new

PdfInit ==
    /\ pc = "extract_data"
    /\ page_count \in 0 .. MaxPages
    /\ i = 0
    /\ results = <<>>
    /\ ocr_results = <<>> /\ direct_results = <<>>
    /\ direct_raised = FALSE /\ ocr_raised = FALSE /\ ocr_calls = 0
    /\ text = <<>> /\ lines = <<>> /\ table = <<>> /\ header_row = 0
    /\ col_indices = no_indices
    /\ article = <<>> /\ name = <<>> /\ quantity = <<>> /\ origin = <<>>
    /\ uploaded_files = <<>> /\ all_results = <<>>

\* pdfplumber.open: the document opens, or the call raises and the except
\* clause takes over
PdfOpen ==
    /\ pc = "extract_data"
    /\ results' = <<>>
    /\ \/ pc' = "direct_loop" /\ i' = 0 /\ UNCHANGED direct_raised
       \/ pc' = "direct_done" /\ direct_raised' = TRUE /\ UNCHANGED i
    /\ UNCHANGED <<page_count, ocr_results, direct_results, ocr_raised, ocr_calls>>
    /\ UNCHANGED <<extractorVars, batchVars>>

\* one turn of the loop over pdf.pages: the page gives tables, or no table
\* and a text, or extract_tables or extract_text raises
DirectPage ==
    /\ pc = "direct_loop" /\ i < page_count
    /\ \/ \E tables \in PageTableLists :
             /\ results' = results \o records_of_tables(tables)
             /\ i' = i + 1
             /\ UNCHANGED <<pc, direct_raised>>
       \/ \E t \in PageTexts :
             /\ results' = results \o extract_from_text(text_or_empty(t))
             /\ i' = i + 1
             /\ UNCHANGED <<pc, direct_raised>>
       \/ /\ direct_raised' = TRUE
          /\ pc' = "direct_done"
          /\ UNCHANGED <<i, results>>
    /\ UNCHANGED <<page_count, ocr_results, direct_results, ocr_raised, ocr_calls>>
    /\ UNCHANGED <<extractorVars, batchVars>>

\* the loop over pdf.pages ends
DirectEnd ==
    /\ pc = "direct_loop" /\ i = page_count
    /\ pc' = "direct_done"
    /\ UNCHANGED <<i, results, pdfVars, extractorVars, batchVars>>

\* after the try statement: `if len(results) < 3`, and the call of
\* _extract_with_ocr up to fitz.open, or the return
DirectDone ==
    /\ pc = "direct_done"
    /\ direct_results' = results
    /\ IF ocr_needed(results)
       THEN /\ ocr_calls' = ocr_calls + 1
            /\ ocr_results' = <<>>
            /\ pc' = "ocr_open"
       ELSE /\ pc' = "returned"
            /\ UNCHANGED <<ocr_calls, ocr_results>>
    /\ UNCHANGED <<i, results, page_count, direct_raised, ocr_raised>>
    /\ UNCHANGED <<extractorVars, batchVars>>

\* fitz.open: the document opens, or the call raises and the except clause
\* of _extract_with_ocr takes over
OcrOpen ==
    /\ pc = "ocr_open"
    /\ \/ pc' = "ocr_loop" /\ i' = 0 /\ UNCHANGED ocr_raised
       \/ pc' = "ocr_done" /\ ocr_raised' = TRUE /\ UNCHANGED i
    /\ UNCHANGED <<results, page_count, ocr_results, direct_results,
                   direct_raised, ocr_calls>>
    /\ UNCHANGED <<extractorVars, batchVars>>

\* one turn of the loop over the pages: the page is rendered and read, or
\* one of the calls raises
OcrPage ==
    /\ pc = "ocr_loop" /\ i < page_count
    /\ \/ \E t \in OcrTexts :
             /\ ocr_results' = ocr_results \o extract_from_text(t)
             /\ i' = i + 1
             /\ UNCHANGED <<pc, ocr_raised>>
       \/ /\ ocr_raised' = TRUE
          /\ pc' = "ocr_done"
          /\ UNCHANGED <<i, ocr_results>>
    /\ UNCHANGED <<results, page_count, direct_results, direct_raised, ocr_calls>>
    /\ UNCHANGED <<extractorVars, batchVars>>

\* the loop of _extract_with_ocr ends, doc.close()
OcrEnd ==
    /\ pc = "ocr_loop" /\ i = page_count
    /\ pc' = "ocr_done"
    /\ UNCHANGED <<i, results, pdfVars, extractorVars, batchVars>>

\* _extract_with_ocr returns; results.extend(ocr_results); return results
OcrReturn ==
    /\ pc = "ocr_done"
    /\ results' = extended(results, ocr_results)
    /\ pc' = "returned"
    /\ UNCHANGED <<i, pdfVars, extractorVars, batchVars>>

PdfNext ==
    \/ PdfOpen \/ DirectPage \/ DirectEnd \/ DirectDone
    \/ OcrOpen \/ OcrPage \/ OcrEnd \/ OcrReturn

SpecPdf == PdfInit /\ [][PdfNext]_vars

\* C8 as stated: when direct extraction has raised, the OCR path is run.
C8_OcrAfterEveryDirectError ==
    (pc = "returned" /\ direct_raised) => ocr_calls = 1

\* C8 amended: when direct extraction has raised, the error is caught (the
\* call goes on to its return) and the OCR path is run, once, if and only if
\* fewer than 3 records had been collected before the error.
C8_OcrAfterDirectErrorIffFewRecords ==
    (pc \in {"ocr_open", "ocr_loop", "ocr_done", "returned"} /\ direct_raised) =>
        ocr_calls = (IF Len(direct_results) < 3 THEN 1 ELSE 0)

\* C8 witness: direct extraction raised after two records and the OCR pass
\* ran; the call has returned.
C8_Witness ==
    pc = "returned" /\ direct_raised /\ Len(direct_results) = 2 /\ ocr_calls = 1

\* C9 as stated: when direct extraction and the OCR pass have both raised,
\* extract_data returns the empty list.
C9_BothFailGiveNothing ==
    (pc = "returned" /\ direct_raised /\ ocr_raised) => results = <<>>

\* C9 amended: when direct extraction and the OCR pass have both raised,
\* extract_data returns the records collected before the two errors: those
\* of direct extraction (fewer than 3), then those of the OCR pass.
C9_BothFailGiveRecordsSoFar ==
    (pc = "returned" /\ direct_raised /\ ocr_raised) =>
        /\ results = direct_results \o ocr_results
        /\ Len(direct_results) < 3

\* C9 witness: both passes raised after their first page, each with a
\* record collected.
C9_Witness ==
    /\ pc = "returned" /\ direct_raised /\ ocr_raised
    /\ direct_results # <<>> /\ ocr_results # <<>>

\* C14: the OCR pass is run at most once, never before direct extraction
\* has finished, and exactly when direct extraction has collected fewer than
\* 3 records; what extract_data returns is the records of direct extraction,
\* all of them, followed by those of the OCR pass when it was run.
C14_OcrIffFewDirectRecords ==
    /\ ocr_calls <= 1
    /\ pc \in {"extract_data", "direct_loop", "direct_done"} =>
          ocr_calls = 0 /\ ocr_results = <<>>
    /\ pc \in {"ocr_open", "ocr_loop", "ocr_done", "returned"} =>
          (ocr_calls = 1 <=> Len(direct_results) < 3)
    /\ pc \in {"ocr_open", "ocr_loop", "ocr_done"} => results = direct_results
    /\ pc = "returned" =>
          results = (IF ocr_calls = 1 THEN direct_results \o ocr_results
                     ELSE direct_results)

\* C14 witness: neither pass raised; direct extraction gave a record or two,
\* the OCR pass ran and gave records, and the call returned both, direct
\* records first.
C14_Witness ==
    /\ pc = "returned" /\ ~direct_raised /\ ~ocr_raised
    /\ direct_results # <<>> /\ ocr_results # <<>>
    /\ ocr_calls = 1
    /\ results = direct_results \o ocr_results

---------------------------------------------------------------------------
(* The batch loop of main (app.py).  An uploaded file is unreadable        *)
(* (Image.open raises), truncated (it opens, but reading its pixels        *)
(* raises: in image.thumbnail when it is larger than 2000 pixels, else in  *)
(* np.array), one pytesseract fails on, or one it reads a text from.       *)

MaxFiles == 4       \* uploaded files

TwoLineText == join(<<10>>, <<LineWithNumber, LineWithName>>)

\* what pytesseract.image_to_string returns for a readable image
ImageTexts == {<<32, 32, 32>>, LineWithNumber, TwoLineText}        \* '   ', ...

File(kind, t) == [kind |-> kind, text |-> t]

Files ==
    {File(k, <<>>) : k \in {"unreadable", "truncated", "truncated_large", "ocr_fails"}}
        \cup {File("ok", t) : t \in ImageTexts}

\* the files shown before the button: uploaded_files[:3]
previewed(files) == SubSeq(files, 1, IF Len(files) < 3 THEN Len(files) ELSE 3)

\* Image.open(file) and st.image(image) of the preview raise
preview_raises(file) == file.kind \in {"unreadable", "truncated", "truncated_large"}

\* the exception that leaves the statements of the try block of the loop
\* before process_image is called: Image.open, resize_image_if_needed
open_exception(file) ==
    IF file.kind = "unreadable" THEN "UnidentifiedImageError"
    ELSE IF file.kind = "truncated_large" THEN "OSError"
    ELSE "none"

\* SimpleOCR.extract_text_from_image: the text, '' when np.array, cv2 or
\* pytesseract raises (the except clause returns "")
extract_text_from_image(file) == IF file.kind = "ok" THEN file.text ELSE <<>>

\* SimpleOCR.process_image
process_image(file) ==
    IF strip(extract_text_from_image(file)) # <<>>
    THEN extract_from_text(extract_text_from_image(file))
    ELSE <<>>

\* an except clause for pytesseract's errors only
except_TesseractError(exception) == exception = "TesseractError"

\* `except Exception`: every error of PIL, cv2 and pytesseract is one
except_Exception(exception) ==
    exception \in {"UnidentifiedImageError", "OSError", "TesseractError"}

BatchInit ==
    /\ pc = "preview"
    /\ uploaded_files \in SeqsUpTo(Files, MaxFiles)
    /\ all_results = <<>>
    /\ i = 0
    /\ results = <<>>
    /\ text = <<>> /\ lines = <<>> /\ table = <<>> /\ header_row = 0
    /\ col_indices = no_indices
    /\ article = <<>> /\ name = <<>> /\ quantity = <<>> /\ origin = <<>>
    /\ page_count = 0 /\ ocr_results = <<>> /\ direct_results = <<>>
    /\ direct_raised = FALSE /\ ocr_raised = FALSE /\ ocr_calls = 0

\* the first column: the previews of the first three files; an error there
\* is not caught and stops the run of the script
Preview ==
    /\ pc = "preview"
    /\ pc' = IF uploaded_files = <<>> THEN "idle"
             ELSE IF \E k \in 1 .. Len(previewed(uploaded_files)) :
                        preview_raises(uploaded_files[k])
                  THEN "script_stopped"
                  ELSE "button"
    /\ UNCHANGED <<i, results, extractorVars, pdfVars, batchVars>>

\* the button is pressed: the loop starts
BatchStart ==
    /\ pc = "button"
    /\ all_results' = <<>>
    /\ i' = 0
    /\ pc' = "batch_loop"
    /\ UNCHANGED <<results, uploaded_files, extractorVars, pdfVars>>

\* one turn of the loop: the try block, its except clause, the progress bar
BatchItem ==
    /\ pc = "batch_loop" /\ i < Len(uploaded_files)
    /\ LET uploaded_file == uploaded_files[i + 1]
           exception == open_exception(uploaded_file)
       IN  IF exception = "none"
           THEN /\ results' = process_image(uploaded_file)
                /\ all_results' = all_results \o process_image(uploaded_file)
                /\ i' = i + 1
                /\ UNCHANGED pc
           ELSE IF except_Exception(exception)
           THEN /\ i' = i + 1
                /\ UNCHANGED <<pc, results, all_results>>
           ELSE /\ pc' = "batch_aborted"
                /\ UNCHANGED <<i, results, all_results>>
    /\ UNCHANGED <<uploaded_files, extractorVars, pdfVars>>

\* the loop ends: 'Обработка завершена!'
BatchEnd ==
    /\ pc = "batch_loop" /\ i = Len(uploaded_files)
    /\ pc' = "batch_done"
    /\ UNCHANGED <<i, results, extractorVars, pdfVars, batchVars>>

BatchNext == Preview \/ BatchStart \/ BatchItem \/ BatchEnd

SpecBatch == BatchInit /\ [][BatchNext]_vars

\* the item fails: its image cannot be opened or read, or the recognizer
\* fails on it
item_fails(file) == file.kind # "ok"

\* the records of the items before position n that do not fail, in order
RECURSIVE records_of_good_items(_, _)
records_of_good_items(files, n) ==
    IF n = 0 THEN <<>>
    ELSE records_of_good_items(files, n - 1)
            \o (IF item_fails(files[n]) THEN <<>>
                ELSE IF strip(files[n].text) = <<>> THEN <<>>
                ELSE extract_from_text(files[n].text))

\* C10: the batch loop is never left by an error of an item; what it has
\* accumulated is the records of the items taken so far that did not fail,
\* in upload order; when it ends, it has taken every item.
C10_BatchSurvivesItemFailures ==
    /\ pc # "batch_aborted"
    /\ pc \in {"batch_loop", "batch_done"} =>
          all_results = records_of_good_items(uploaded_files, i)
    /\ pc = "batch_done" => i = Len(uploaded_files)

\* C10 witness: the loop has ended over four files, of which the second
\* failed in the recognizer and the fourth could not be opened, while the
\* first and the third gave records.
C10_Witness ==
    /\ pc = "batch_done" /\ Len(uploaded_files) = 4
    /\ uploaded_files[2].kind = "ocr_fails"
    /\ uploaded_files[4].kind = "unreadable"
    /\ process_image(uploaded_files[1]) # <<>>
    /\ process_image(uploaded_files[3]) # <<>>
    /\ all_results = process_image(uploaded_files[1]) \o process_image(uploaded_files[3])

=============================================================================
